---- MODULE Spec2Model ----
(***************************************************************************)
(* ecs_it: per-storage access control (Accessor / AccessorState, the       *)
(* init_*_access and drop_*_access functions of Storage<T>) and the        *)
(* checkout path of World / Warehouse.                                     *)
(*                                                                         *)
(* Fourteen specifications share the variables:                            *)
(*   Spec        threads call init_read_access / init_write_access /       *)
(*               drop_read_access / drop_write_access on the storages      *)
(*               directly, in every interleaving;                          *)
(*   FairSpec    Spec with weak fairness on the re-checks of wait_while    *)
(*               and on the drops (spurious wake-ups stay unfair);         *)
(*   WorldSpec   threads go through World::req_read_guard /                *)
(*               World::req_write_guard, i.e. through the warehouse mutex  *)
(*               and Warehouse::capacity_check;                            *)
(*   OrderedSpec threads take exclusive guards through                     *)
(*               World::req_write_guard on X and then on Y, and drop them; *)
(*   ReentrantSpec  Spec plus a thread that asks for write access to a     *)
(*               storage on which it already holds a guard;                *)
(*   RegistrySpec   World::new followed by World::register_component and   *)
(*               checkouts of registered and unregistered component types; *)
(*   DataSpec    World::add_component / World::rm_component on one         *)
(*               component type, with checkouts and new entities;          *)
(*   StaleSpec   Spec without spurious wake-ups;                           *)
(*   GuardSpec   the guards of storage/storage_guard.rs: new stores the    *)
(*               Arc only, Drop releases the access;                       *)
(*   EntitySpec  World::create_entity, Entities::new_entity_id,            *)
(*               Entities::rm_entity and World::maintain_ecs, with         *)
(*               components added to the entities;                         *)
(*   EntitiesSpec   Entities::new_entity_id and Entities::rm_entity of     *)
(*               entity/mod.rs on their own;                               *)
(*   FlipFlopSpec   the earlier Accessor of accessor.rs (val / val_mut /   *)
(*               Drop for AccessGuard), with weak fairness on the          *)
(*               re-checks and the drops;                                  *)
(*   AccessGuardSpec   the same Accessor, with guards that are dropped     *)
(*               without a val or val_mut call as well;                    *)
(*   AccessModSpec  the Accessor of accessor/mod.rs, whose Drop notifies   *)
(*               differently, with the same weak fairness.                 *)
(* Each critical section of the accessor mutex is one atomic step.  A      *)
(* thread inside Condvar::wait_while is either parked on the condition     *)
(* variable ("*_wait") or awake and about to re-lock the mutex and         *)
(* re-check the predicate ("*_woken").                                     *)
(***************************************************************************)
EXTENDS Integers, FiniteSets, Sequences, TLC

\* Threads of the embedding program and registered component types.
Threads == {"t1", "t2", "t3"}
Storages == {"X", "Y"}
\* The threads that go through the World in WorldSpec.
WorldThreads == {"t1", "t2"}
NoStorage == "none"
NoThread == "nobody"

\* Guards one thread may hold on one storage at the same time.
MaxHold == 1
\* Entity ids the model allocates at most.
MaxCapacity == 2
\* The entity ids the threads pass to insert / remove / get / rm_entity.
Ids == 0..(MaxCapacity - 1)
\* Component values 1..MaxVal; NoValue is the empty slot (None).
MaxVal == 2
NoValue == 0
Values == 1..MaxVal
\* The result slot of a thread that has not called insert / remove / get.
NoResult == -1
\* The largest u16: AccessorState.readers and .writers_waiting are u16.
U16Max == 65535
\* Shared guards dropped on one storage below a reader count of zero at most.
MaxUnderflow == 1
\* Exclusive grants counted at most while a reader stays blocked.
MaxMissed == 2
\* Calls of Entities::new_entity_id at most; the ids it can return.
MaxEntities == 4
EntityIds == 0..(MaxEntities - 1)

VARIABLES
    acc,         \* acc[s]: the AccessorState behind Accessor.mtx of storage s
    pc,          \* pc[t]: where thread t is
    target,      \* target[t]: the storage of t's call in progress
    kind,        \* kind[t]: "read" / "write", the guard t's World call asks for
    rd,          \* rd[t][s]: shared guards t holds on s
    wr,          \* wr[t][s]: exclusive guards t holds on s
    whOwner,     \* the thread holding World.warehouse (the Mutex<Warehouse>)
    whCapacity,  \* Warehouse.capacity
    boxCapacity, \* boxCapacity[s]: StorageBox.capacity of s
    zeroed,      \* history: zeroed[s] holds when the latest grant or release
                 \* on s was a drop_read_access that left no reader
    registered,  \* the keys of Warehouse.storages
    whPoisoned,  \* World.warehouse is poisoned (a holder panicked)
    slots,       \* slots[s]: the slot vector of storage s, slot of id i at i + 1
    ret,         \* ret[t]: what t's latest insert / remove / get / create_entity
                 \* returned
    missed,      \* history: missed[s] counts the grants of init_write_access
                 \* on s made while a thread was blocked in init_read_access
                 \* on s, since the latest grant of init_read_access on s
    accPoisoned, \* the storages whose Accessor.mtx is poisoned
    num_entities,    \* Entities.num_entities
    active_entities, \* Entities.active_entities
    dead_entities,   \* Entities.dead_entities (a Vec, popped from the end)
    created,     \* history: the calls of World::create_entity so far
    life         \* history: life[id] is "never" (id was not handed out),
                 \* "living" (handed out), "removed" (rm_entity was the
                 \* latest call on id), "swept" (removed, and maintain_ecs
                 \* has returned since) or "recycled" (handed out again)

vars == <<acc, pc, target, kind, rd, wr, whOwner, whCapacity, boxCapacity, zeroed,
          missed, registered, whPoisoned, slots, ret, accPoisoned, num_entities,
          active_entities, dead_entities, created, life>>

\* The registry map, the poison flag and the component data.
storeVars == <<registered, whPoisoned, slots, ret>>

worldVars == <<whOwner, whCapacity, boxCapacity, kind, registered, whPoisoned,
               slots, ret>>

\* The Entities behind World.entities, and the history of the entity ids.
entityVars == <<num_entities, active_entities, dead_entities, created, life>>

-----------------------------------------------------------------------------
(* AccessorState and the state changes of the four access functions.       *)

NewAccessorState ==
    [readers |-> 0, read_allowed |-> TRUE, write_allowed |-> TRUE,
     writers_waiting |-> 0]

\* A reader that forgets to close write access.
ReadGrantedKeepsWrite(a) ==
    [a EXCEPT !.readers = a.readers + 1]

\* init_read_access, after wait_while returned: lines 82-83.
ReadGranted(a) ==
    [a EXCEPT !.write_allowed = FALSE, !.readers = a.readers + 1]

\* init_write_access, before waiting: line 93.
WriteEnter(a) ==
    [a EXCEPT !.writers_waiting = a.writers_waiting + 1]

\* An init_write_access that leaves write_allowed alone.
WriteGrantedKeepsWrite(a) ==
    [a EXCEPT !.read_allowed = FALSE, !.writers_waiting = a.writers_waiting - 1]

\* An init_write_access that leaves writers_waiting alone.
WriteGrantedKeepsCount(a) ==
    [a EXCEPT !.read_allowed = FALSE, !.write_allowed = FALSE]

\* init_write_access, after wait_while returned: lines 107-109.
WriteGranted(a) ==
    [a EXCEPT !.read_allowed = FALSE, !.write_allowed = FALSE,
              !.writers_waiting = a.writers_waiting - 1]

\* A read release that never re-opens write access.
ReadDroppedKeepsClosed(a) ==
    [a EXCEPT !.readers = a.readers - 1]

\* A read release that re-opens write access while readers remain.
ReadDroppedAlwaysOpens(a) ==
    [a EXCEPT !.readers = a.readers - 1, !.write_allowed = TRUE]

\* A read release that closes read access when it leaves no reader.
ReadDroppedClosesRead(a) ==
    LET b == [a EXCEPT !.readers = a.readers - 1]
    IN  IF b.readers = 0
        THEN [b EXCEPT !.write_allowed = TRUE, !.read_allowed = FALSE]
        ELSE b

\* drop_read_access: lines 141-159.
ReadDropped(a) ==
    LET b == [a EXCEPT !.readers = a.readers - 1]
    IN  IF b.readers = 0 THEN [b EXCEPT !.write_allowed = TRUE] ELSE b

\* A write release that re-opens write access only.
WriteDroppedKeepsReadClosed(a) ==
    [a EXCEPT !.write_allowed = TRUE]

\* drop_write_access: lines 178-179.
WriteDropped(a) ==
    [a EXCEPT !.write_allowed = TRUE, !.read_allowed = TRUE]

\* A release that always takes the notify_all branch.
NotifyWriterNever(a) == FALSE

\* A release that always takes the notify_one branch.
NotifyWriterAlways(a) == TRUE

\* "Writer prioritization": the release notifies writer_cvar (notify_one)
\* when this holds and reader_cvar (notify_all) otherwise.
NotifyWriter(a) == a.writers_waiting > 0

-----------------------------------------------------------------------------
(* Condition variables.                                                    *)

\* The threads inside wait_while of init_write_access / init_read_access on s,
\* parked or awake.
BlockedWriters(s) == {t \in Threads : pc[t] \in {"w_wait", "w_woken"} /\ target[t] = s}
BlockedReaders(s) == {t \in Threads : pc[t] \in {"r_wait", "r_woken"} /\ target[t] = s}

ParkedReaders(s) == {t \in Threads : pc[t] = "r_wait" /\ target[t] = s}
ParkedWriters(s) == {t \in Threads : pc[t] \in {"w_wait", "cap_wait"} /\ target[t] = s}

WokenPc(p) ==
    CASE p = "r_wait"   -> "r_woken"
      [] p = "w_wait"   -> "w_woken"
      [] p = "cap_wait" -> "cap_woken"
      [] OTHER          -> p

\* The pc after the release's notification, `a` being the state the release
\* leaves and `one` the writer notify_one picks (NoThread when none is parked).
\* `base` is pc with the releasing thread's own step already applied.
Notified(base, s, a, one) ==
    IF NotifyWriter(a)
    THEN [t \in Threads |-> IF t = one THEN WokenPc(base[t]) ELSE base[t]]
    ELSE [t \in Threads |->
            IF t \in ParkedReaders(s) THEN WokenPc(base[t]) ELSE base[t]]

\* A notify_one that wakes nobody.
NotifyChoicesNobody(s) == {NoThread}

\* The threads notify_one may pick.
NotifyChoices(s) ==
    IF ParkedWriters(s) = {} THEN {NoThread} ELSE ParkedWriters(s)

-----------------------------------------------------------------------------
TypeOK ==
    /\ acc \in [Storages -> [readers : Nat, read_allowed : BOOLEAN,
                             write_allowed : BOOLEAN, writers_waiting : Nat]]
    /\ pc \in [Threads -> {"idle", "r_wait", "r_woken", "w_wait", "w_woken",
                           "wh_lock", "cap_check", "cap_wait", "cap_woken",
                           "cap_held", "guard_new", "reg_insert",
                           "reg_relock", "reg_stuck", "panicked"}]
    /\ target \in [Threads -> Storages \cup {NoStorage}]
    /\ kind \in [Threads -> {"read", "write", "register", "none"}]
    /\ rd \in [Threads -> [Storages -> Nat]]
    /\ wr \in [Threads -> [Storages -> Nat]]
    /\ whOwner \in Threads \cup {NoThread}
    /\ whCapacity \in 0..MaxCapacity
    /\ boxCapacity \in [Storages -> Nat]
    /\ zeroed \in [Storages -> BOOLEAN]
    /\ missed \in [Storages -> 0..MaxMissed]
    /\ registered \subseteq Storages
    /\ whPoisoned \in BOOLEAN
    /\ \A s \in Storages :
          /\ slots[s] \in Seq(Values \cup {NoValue})
          /\ Len(slots[s]) <= (MaxCapacity * (MaxCapacity + 1)) \div 2
    /\ ret \in [Threads -> Values \cup Ids \cup EntityIds \cup {NoValue, NoResult}]
    /\ accPoisoned \subseteq Storages
    /\ num_entities \in 0..MaxEntities
    /\ active_entities \subseteq EntityIds
    /\ dead_entities \in Seq(EntityIds) /\ Len(dead_entities) <= MaxEntities
    /\ created \in 0..MaxCapacity
    /\ life \in [EntityIds -> {"never", "living", "removed", "swept", "recycled"}]

\* World::new(), followed by the registration of the component types `reg`.
WorldNew(reg) ==
    /\ acc = [s \in Storages |-> NewAccessorState]
    /\ pc = [t \in Threads |-> "idle"]
    /\ target = [t \in Threads |-> NoStorage]
    /\ kind = [t \in Threads |-> "none"]
    /\ rd = [t \in Threads |-> [s \in Storages |-> 0]]
    /\ wr = [t \in Threads |-> [s \in Storages |-> 0]]
    /\ whOwner = NoThread
    /\ whCapacity = 0
    /\ boxCapacity = [s \in Storages |-> 0]
    /\ zeroed = [s \in Storages |-> FALSE]
    /\ missed = [s \in Storages |-> 0]
    /\ registered = reg
    /\ whPoisoned = FALSE
    /\ slots = [s \in Storages |-> <<>>]
    /\ ret = [t \in Threads |-> NoResult]
    /\ accPoisoned = {}
    /\ num_entities = 0
    /\ active_entities = {}
    /\ dead_entities = <<>>
    /\ created = 0
    /\ life = [id \in EntityIds |-> "never"]

Init == WorldNew(Storages)

Holds(t, s) == rd[t][s] + wr[t][s]

-----------------------------------------------------------------------------
(* Storage<T>: the access functions.                                       *)

\* init_read_access, one evaluation of wait_while's predicate under the
\* accessor mutex: read access is taken (TRUE) or the thread parks (FALSE).
ReadAttempt(t, s, granted) ==
    /\ granted = acc[s].read_allowed
    /\ IF granted
       THEN /\ acc' = [acc EXCEPT ![s] = ReadGranted(acc[s])]
            /\ rd' = [rd EXCEPT ![t][s] = rd[t][s] + 1]
            /\ zeroed' = [zeroed EXCEPT ![s] = FALSE]
            /\ missed' = [missed EXCEPT ![s] = 0]
       ELSE UNCHANGED <<acc, rd, zeroed, missed>>
    /\ UNCHANGED wr

\* The count of missed[s] after a grant of init_write_access on s: one more
\* exclusive grant that the threads blocked in init_read_access wait through.
MissedAfterWrite(s) ==
    IF BlockedReaders(s) = {} THEN 0
    ELSE IF missed[s] < MaxMissed THEN missed[s] + 1 ELSE MaxMissed

\* init_write_access, one evaluation of wait_while's predicate under the
\* accessor mutex; `a` is the state the predicate is evaluated on.
WriteAttempt(t, s, a, granted) ==
    /\ granted = a.write_allowed
    /\ IF granted
       THEN /\ acc' = [acc EXCEPT ![s] = WriteGranted(a)]
            /\ wr' = [wr EXCEPT ![t][s] = wr[t][s] + 1]
            /\ zeroed' = [zeroed EXCEPT ![s] = FALSE]
            /\ missed' = [missed EXCEPT ![s] = MissedAfterWrite(s)]
       ELSE /\ acc' = [acc EXCEPT ![s] = a]
            /\ UNCHANGED <<wr, zeroed, missed>>
    /\ UNCHANGED rd

\* init_read_access called directly: lock, wait_while(!read_allowed).
InitReadAccess(t, s) ==
    /\ pc[t] = "idle"
    /\ Holds(t, s) < MaxHold
    /\ \E granted \in BOOLEAN :
        /\ ReadAttempt(t, s, granted)
        /\ pc' = [pc EXCEPT ![t] = IF granted THEN "idle" ELSE "r_wait"]
        /\ target' = [target EXCEPT ![t] = IF granted THEN NoStorage ELSE s]
    /\ UNCHANGED worldVars
    /\ UNCHANGED <<accPoisoned, entityVars>>

\* init_write_access called directly: lock, writers_waiting += 1,
\* wait_while(!write_allowed).
InitWriteAccess(t, s) ==
    /\ pc[t] = "idle"
    /\ Holds(t, s) < MaxHold
    /\ \E granted \in BOOLEAN :
        /\ WriteAttempt(t, s, WriteEnter(acc[s]), granted)
        /\ pc' = [pc EXCEPT ![t] = IF granted THEN "idle" ELSE "w_wait"]
        /\ target' = [target EXCEPT ![t] = IF granted THEN NoStorage ELSE s]
    /\ UNCHANGED worldVars
    /\ UNCHANGED <<accPoisoned, entityVars>>

\* A thread woken inside wait_while of init_read_access re-locks the mutex
\* and re-checks.  When the call was made by World::req_read_guard, returning
\* the guard drops the MutexGuard of the warehouse.
ReadRecheck(t) ==
    /\ pc[t] = "r_woken"
    /\ \E granted \in BOOLEAN :
        /\ ReadAttempt(t, target[t], granted)
        /\ pc' = [pc EXCEPT ![t] = IF granted THEN "idle" ELSE "r_wait"]
        /\ target' = [target EXCEPT ![t] = IF granted THEN NoStorage ELSE @]
        /\ kind' = [kind EXCEPT ![t] = IF granted THEN "none" ELSE @]
        /\ whOwner' = IF granted THEN NoThread ELSE whOwner
    /\ UNCHANGED <<whCapacity, boxCapacity, storeVars>>
    /\ UNCHANGED <<accPoisoned, entityVars>>

\* The same for init_write_access.
WriteRecheck(t) ==
    /\ pc[t] = "w_woken"
    /\ \E granted \in BOOLEAN :
        /\ WriteAttempt(t, target[t], acc[target[t]], granted)
        /\ pc' = [pc EXCEPT ![t] = IF granted THEN "idle" ELSE "w_wait"]
        /\ target' = [target EXCEPT ![t] = IF granted THEN NoStorage ELSE @]
        /\ kind' = [kind EXCEPT ![t] = IF granted THEN "none" ELSE @]
        /\ whOwner' = IF granted THEN NoThread ELSE whOwner
    /\ UNCHANGED <<whCapacity, boxCapacity, storeVars>>
    /\ UNCHANGED <<accPoisoned, entityVars>>

\* drop_read_access: a shared guard of t on s is dropped.
DropReadAccess(t, s) ==
    /\ pc[t] = "idle"
    /\ rd[t][s] > 0
    /\ LET a == ReadDropped(acc[s]) IN
       /\ acc' = [acc EXCEPT ![s] = a]
       /\ \E one \in NotifyChoices(s) : pc' = Notified(pc, s, a, one)
    /\ rd' = [rd EXCEPT ![t][s] = rd[t][s] - 1]
    /\ zeroed' = [zeroed EXCEPT ![s] = (ReadDropped(acc[s]).readers = 0)]
    /\ UNCHANGED missed
    /\ UNCHANGED <<target, wr, worldVars>>
    /\ UNCHANGED <<accPoisoned, entityVars>>

\* drop_write_access: the exclusive guard of t on s is dropped.
DropWriteAccess(t, s) ==
    /\ pc[t] = "idle"
    /\ wr[t][s] > 0
    /\ LET a == WriteDropped(acc[s]) IN
       /\ acc' = [acc EXCEPT ![s] = a]
       /\ \E one \in NotifyChoices(s) : pc' = Notified(pc, s, a, one)
    /\ wr' = [wr EXCEPT ![t][s] = wr[t][s] - 1]
    /\ zeroed' = [zeroed EXCEPT ![s] = FALSE]
    /\ UNCHANGED missed
    /\ UNCHANGED <<target, rd, worldVars>>
    /\ UNCHANGED <<accPoisoned, entityVars>>

\* Condvar::wait_while may wake without a notification (spurious wake-up);
\* the thread then re-checks its predicate like a notified one.
SpuriousWake(t) ==
    /\ pc[t] \in {"r_wait", "w_wait", "cap_wait"}
    /\ pc' = [pc EXCEPT ![t] = WokenPc(pc[t])]
    /\ UNCHANGED <<acc, target, rd, wr, zeroed, missed, worldVars>>
    /\ UNCHANGED <<accPoisoned, entityVars>>

Next ==
    \/ \E t \in Threads, s \in Storages : InitReadAccess(t, s)
    \/ \E t \in Threads, s \in Storages : InitWriteAccess(t, s)
    \/ \E t \in Threads : ReadRecheck(t)
    \/ \E t \in Threads : WriteRecheck(t)
    \/ \E t \in Threads, s \in Storages : DropReadAccess(t, s)
    \/ \E t \in Threads, s \in Storages : DropWriteAccess(t, s)
    \/ \E t \in Threads : SpuriousWake(t)

Spec == Init /\ [][Next]_vars

\* The access functions with condition variables that never wake a thread
\* spuriously: every thread that is awake inside wait_while was notified by
\* a drop_read_access or a drop_write_access.
StaleNext ==
    \/ \E t \in Threads, s \in Storages : InitReadAccess(t, s)
    \/ \E t \in Threads, s \in Storages : InitWriteAccess(t, s)
    \/ \E t \in Threads : ReadRecheck(t)
    \/ \E t \in Threads : WriteRecheck(t)
    \/ \E t \in Threads, s \in Storages : DropReadAccess(t, s)
    \/ \E t \in Threads, s \in Storages : DropWriteAccess(t, s)

StaleSpec == Init /\ [][StaleNext]_vars

-----------------------------------------------------------------------------
(* World / Warehouse: the checkout path.  The component types of Storages  *)
(* are registered; World.warehouse is a Mutex<Warehouse>.                  *)

\* World::req_read_guard / World::req_write_guard is called; the thread is
\* about to lock World.warehouse (world.rs 242, 256).
ReqGuard(t, k, s) ==
    /\ pc[t] = "idle"
    /\ Holds(t, s) < MaxHold
    /\ pc' = [pc EXCEPT ![t] = "wh_lock"]
    /\ target' = [target EXCEPT ![t] = s]
    /\ kind' = [kind EXCEPT ![t] = k]
    /\ UNCHANGED <<acc, rd, wr, zeroed, missed, whOwner, whCapacity, boxCapacity, storeVars>>
    /\ UNCHANGED <<accPoisoned, entityVars>>

\* self.warehouse.lock(): the MutexGuard lives until the function returns.
WarehouseLock(t) ==
    /\ pc[t] = "wh_lock"
    /\ whOwner = NoThread
    /\ ~whPoisoned
    /\ whOwner' = t
    /\ pc' = [pc EXCEPT ![t] = IF kind[t] = "register" THEN "reg_insert"
                                ELSE "cap_check"]
    /\ UNCHANGED <<acc, target, kind, rd, wr, zeroed, missed, whCapacity, boxCapacity, storeVars>>
    /\ UNCHANGED <<accPoisoned, entityVars>>

\* A capacity_check that sizes storages of unregistered types as well.
NewEntityCountAnyType(s) == whCapacity - boxCapacity[s]

\* A capacity_check that finds one new entity at every checkout.
NewEntityCountEachCheckout(s) ==
    IF s \in registered THEN 1 ELSE 0

\* capacity_check: new_entity_count of the storage found under the type id;
\* nothing is done (0) when `if let Some(storage_box)` finds none.
NewEntityCount(s) ==
    IF s \in registered THEN whCapacity - boxCapacity[s] ELSE 0

\* Warehouse::capacity_check up to MutableStorageGuard::new: when the storage
\* is behind the warehouse (new_entity_count > 0), write access is requested.
CapacityCheck(t) ==
    /\ pc[t] = "cap_check"
    /\ LET s == target[t] IN
       IF NewEntityCount(s) > 0
       THEN \E granted \in BOOLEAN :
              /\ WriteAttempt(t, s, WriteEnter(acc[s]), granted)
              /\ pc' = [pc EXCEPT ![t] = IF granted THEN "cap_held" ELSE "cap_wait"]
       ELSE /\ pc' = [pc EXCEPT ![t] = "guard_new"]
            /\ UNCHANGED <<acc, rd, wr, zeroed, missed>>
    /\ UNCHANGED <<target, worldVars>>
    /\ UNCHANGED <<accPoisoned, entityVars>>

\* The guard of capacity_check, woken inside wait_while of init_write_access.
CapacityRecheck(t) ==
    /\ pc[t] = "cap_woken"
    /\ \E granted \in BOOLEAN :
        /\ WriteAttempt(t, target[t], acc[target[t]], granted)
        /\ pc' = [pc EXCEPT ![t] = IF granted THEN "cap_held" ELSE "cap_wait"]
    /\ UNCHANGED <<target, worldVars>>
    /\ UNCHANGED <<accPoisoned, entityVars>>

\* A register_new_entities that adds one slot whatever n is.
RegisterOneEntity(v, n) == Append(v, NoValue)

\* guard.register_new_entities(n): the slot vector is lengthened by n empty
\* slots.
RegisterNewEntities(v, n) == v \o [i \in 1..n |-> NoValue]

\* capacity_check with the guard held: register_new_entities, then
\* storage_box.capacity.fetch_add(1), then the guard goes out of scope
\* (drop_write_access).
CapacityGrow(t) ==
    /\ pc[t] = "cap_held"
    /\ LET s == target[t]
           a == WriteDropped(acc[s])
       IN  /\ slots' = [slots EXCEPT ![s] =
                            RegisterNewEntities(slots[s], NewEntityCount(s))]
           /\ boxCapacity' = [boxCapacity EXCEPT ![s] = boxCapacity[s] + 1]
           /\ acc' = [acc EXCEPT ![s] = a]
           /\ wr' = [wr EXCEPT ![t][s] = wr[t][s] - 1]
           /\ zeroed' = [zeroed EXCEPT ![s] = FALSE]
           /\ UNCHANGED missed
           /\ \E one \in NotifyChoices(s) :
                pc' = Notified([pc EXCEPT ![t] = "guard_new"], s, a, one)
    /\ UNCHANGED <<target, kind, rd, whOwner, whCapacity, registered, whPoisoned, ret>>
    /\ UNCHANGED <<accPoisoned, entityVars>>

\* Immutable/MutableStorageGuard::new on the cloned Arc: init_read_access or
\* init_write_access, with the warehouse still locked.  When access is
\* granted the guard is returned and the warehouse MutexGuard is dropped.
GuardNew(t) ==
    /\ pc[t] = "guard_new"
    /\ target[t] \in registered
    /\ \E granted \in BOOLEAN :
        /\ IF kind[t] = "read"
           THEN ReadAttempt(t, target[t], granted)
           ELSE WriteAttempt(t, target[t], WriteEnter(acc[target[t]]), granted)
        /\ pc' = [pc EXCEPT ![t] =
                    IF granted THEN "idle"
                    ELSE IF kind[t] = "read" THEN "r_wait" ELSE "w_wait"]
        /\ target' = [target EXCEPT ![t] = IF granted THEN NoStorage ELSE @]
        /\ kind' = [kind EXCEPT ![t] = IF granted THEN "none" ELSE @]
        /\ whOwner' = IF granted THEN NoThread ELSE whOwner
    /\ UNCHANGED <<whCapacity, boxCapacity, storeVars>>
    /\ UNCHANGED <<accPoisoned, entityVars>>

\* Warehouse::lazy_lengthen(num_new_ents), by a caller that holds the
\* warehouse (new entity ids were created).
LazyLengthen(n) ==
    /\ whOwner = NoThread
    /\ ~whPoisoned
    /\ whCapacity + n <= MaxCapacity
    /\ whCapacity' = whCapacity + n
    /\ UNCHANGED <<acc, pc, target, kind, rd, wr, zeroed, missed, whOwner, boxCapacity, storeVars>>
    /\ UNCHANGED <<accPoisoned, entityVars>>

WorldNext ==
    \/ \E t \in WorldThreads, s \in Storages : ReqGuard(t, "read", s)
    \/ \E t \in WorldThreads, s \in Storages : ReqGuard(t, "write", s)
    \/ \E t \in WorldThreads : WarehouseLock(t)
    \/ \E t \in WorldThreads : CapacityCheck(t)
    \/ \E t \in WorldThreads : CapacityRecheck(t)
    \/ \E t \in WorldThreads : CapacityGrow(t)
    \/ \E t \in WorldThreads : GuardNew(t)
    \/ \E t \in WorldThreads : ReadRecheck(t)
    \/ \E t \in WorldThreads : WriteRecheck(t)
    \/ \E t \in WorldThreads, s \in Storages : DropReadAccess(t, s)
    \/ \E t \in WorldThreads, s \in Storages : DropWriteAccess(t, s)
    \/ \E t \in WorldThreads : SpuriousWake(t)
    \/ \E n \in 1..MaxCapacity : LazyLengthen(n)

WorldSpec == Init /\ [][WorldNext]_vars

\* Threads that only ever ask the World for exclusive guards, X first and Y
\* while holding X.  No entity id is created, so capacity_check never takes
\* its guard.
OrderedNext ==
    \/ \E t \in Threads :
            /\ \A s \in Storages : Holds(t, s) = 0
            /\ ReqGuard(t, "write", "X")
    \/ \E t \in Threads :
            /\ wr[t]["X"] = 1
            /\ ReqGuard(t, "write", "Y")
    \/ \E t \in Threads : WarehouseLock(t)
    \/ \E t \in Threads : CapacityCheck(t)
    \/ \E t \in Threads : GuardNew(t)
    \/ \E t \in Threads : WriteRecheck(t)
    \/ \E t \in Threads, s \in Storages : DropWriteAccess(t, s)
    \/ \E t \in Threads : SpuriousWake(t)

OrderedSpec == Init /\ [][OrderedNext]_vars

\* Scheduling of the direct calls: a woken thread gets to re-check, and a
\* thread that holds a guard and is not inside a call drops it.
Fairness ==
    /\ \A t \in Threads : WF_vars(ReadRecheck(t)) /\ WF_vars(WriteRecheck(t))
    /\ \A t \in Threads, s \in Storages :
          WF_vars(DropReadAccess(t, s)) /\ WF_vars(DropWriteAccess(t, s))

FairSpec == Spec /\ Fairness

\* init_write_access called by a thread that still holds a guard (shared or
\* exclusive) on the same storage: lib.rs 38-44.
ReentrantWrite(t, s) ==
    /\ pc[t] = "idle"
    /\ Holds(t, s) > 0
    /\ \E granted \in BOOLEAN :
        /\ WriteAttempt(t, s, WriteEnter(acc[s]), granted)
        /\ pc' = [pc EXCEPT ![t] = IF granted THEN "idle" ELSE "w_wait"]
        /\ target' = [target EXCEPT ![t] = IF granted THEN NoStorage ELSE s]
    /\ UNCHANGED worldVars
    /\ UNCHANGED <<accPoisoned, entityVars>>

\* The direct calls, re-entrant write requests included.
ReentrantNext ==
    \/ \E t \in Threads, s \in Storages : InitReadAccess(t, s)
    \/ \E t \in Threads, s \in Storages : InitWriteAccess(t, s)
    \/ \E t \in Threads, s \in Storages : ReentrantWrite(t, s)
    \/ \E t \in Threads : ReadRecheck(t)
    \/ \E t \in Threads : WriteRecheck(t)
    \/ \E t \in Threads, s \in Storages : DropReadAccess(t, s)
    \/ \E t \in Threads, s \in Storages : DropWriteAccess(t, s)
    \/ \E t \in Threads : SpuriousWake(t)

ReentrantSpec == Init /\ [][ReentrantNext]_vars

-----------------------------------------------------------------------------
(* World: registration, and calls that end in a panic.  A panic unwinds    *)
(* the calling thread; a MutexGuard of the warehouse dropped while         *)
(* unwinding poisons World.warehouse.                                      *)

\* World::register_component::<s> is called; the thread is about to lock
\* World.warehouse (world.rs 97-98).
RegisterComponent(t, s) ==
    /\ pc[t] = "idle"
    /\ \A x \in Storages : Holds(t, x) = 0
    /\ pc' = [pc EXCEPT ![t] = "wh_lock"]
    /\ target' = [target EXCEPT ![t] = s]
    /\ kind' = [kind EXCEPT ![t] = "register"]
    /\ UNCHANGED <<acc, rd, wr, zeroed, missed, whOwner, whCapacity, boxCapacity, storeVars>>
    /\ UNCHANGED <<accPoisoned, entityVars>>

\* self.warehouse.lock().expect(..) on a poisoned warehouse: panic.
WarehouseLockPoisoned(t) ==
    /\ pc[t] = "wh_lock"
    /\ whOwner = NoThread
    /\ whPoisoned
    /\ pc' = [pc EXCEPT ![t] = "panicked"]
    /\ UNCHANGED <<acc, target, kind, rd, wr, zeroed, missed, whOwner, whCapacity,
                   boxCapacity, storeVars>>
    /\ UNCHANGED <<accPoisoned, entityVars>>

\* register_component with the warehouse locked (world.rs 100-111): panic
\* when the type id is a key already, else the new StorageBox is inserted.
RegisterInsert(t) ==
    /\ pc[t] = "reg_insert"
    /\ IF target[t] \in registered
       THEN /\ pc' = [pc EXCEPT ![t] = "panicked"]
            /\ whOwner' = NoThread
            /\ whPoisoned' = TRUE
            /\ UNCHANGED registered
       ELSE /\ pc' = [pc EXCEPT ![t] = "reg_relock"]
            /\ registered' = registered \cup {target[t]}
            /\ UNCHANGED <<whOwner, whPoisoned>>
    /\ UNCHANGED <<acc, target, kind, rd, wr, zeroed, missed, whCapacity, boxCapacity,
                   slots, ret>>
    /\ UNCHANGED <<accPoisoned, entityVars>>

\* register_component locks the warehouse a second time (world.rs 123) while
\* its first MutexGuard is alive.  Mutex::lock on the owning thread never
\* returns: it deadlocks (TRUE) or panics (FALSE).
RegisterRelock(t) ==
    /\ pc[t] = "reg_relock"
    /\ \E deadlocks \in BOOLEAN :
         IF deadlocks
         THEN /\ pc' = [pc EXCEPT ![t] = "reg_stuck"]
              /\ UNCHANGED <<whOwner, whPoisoned>>
         ELSE /\ pc' = [pc EXCEPT ![t] = "panicked"]
              /\ whOwner' = NoThread
              /\ whPoisoned' = TRUE
    /\ UNCHANGED <<acc, target, kind, rd, wr, zeroed, missed, whCapacity, boxCapacity,
                   registered, slots, ret>>
    /\ UNCHANGED <<accPoisoned, entityVars>>

\* Warehouse::checkout_storage / checkout_storage_mut find no storage under
\* the type id: panic, with the warehouse locked (warehouse.rs 49-51, 62-64).
CheckoutUnregistered(t) ==
    /\ pc[t] = "guard_new"
    /\ target[t] \notin registered
    /\ pc' = [pc EXCEPT ![t] = "panicked"]
    /\ whOwner' = NoThread
    /\ whPoisoned' = TRUE
    /\ UNCHANGED <<acc, target, kind, rd, wr, zeroed, missed, whCapacity, boxCapacity,
                   registered, slots, ret>>
    /\ UNCHANGED <<accPoisoned, entityVars>>

\* A World fresh from World::new(): registrations and checkouts.
RegistryInit == WorldNew({})

RegistryNext ==
    \/ \E t \in Threads, s \in Storages : RegisterComponent(t, s)
    \/ \E t \in Threads, s \in Storages : ReqGuard(t, "read", s)
    \/ \E t \in Threads, s \in Storages : ReqGuard(t, "write", s)
    \/ \E t \in Threads : WarehouseLock(t)
    \/ \E t \in Threads : WarehouseLockPoisoned(t)
    \/ \E t \in Threads : RegisterInsert(t)
    \/ \E t \in Threads : RegisterRelock(t)
    \/ \E t \in Threads : CapacityCheck(t)
    \/ \E t \in Threads : CheckoutUnregistered(t)
    \/ \E n \in 1..MaxCapacity : LazyLengthen(n)

RegistrySpec == RegistryInit /\ [][RegistryNext]_vars

-----------------------------------------------------------------------------
(* Component data: what a thread does through the guards it holds.  Entity *)
(* id i is slot i + 1 of the slot vector.                                  *)

\* A lookup that answers with the slot of id 0 whatever the id.
SlotOfFirst(v, id) == v[1]

\* The slot of id: indexing, ImmutableStorageGuard::get.
SlotOf(v, id) == v[id + 1]

\* An insert that shifts the later slots up, like Vec::insert.
InsertShifting(v, id, x) ==
    SubSeq(v, 1, id) \o <<x>> \o SubSeq(v, id + 1, Len(v))

\* insert(id, x): the slot of id holds x afterwards.
InsertAt(v, id, x) == [v EXCEPT ![id + 1] = x]

\* A remove that leaves the slot as it is.
RemoveKeeps(v, id) == v

\* remove(id): the slot of id is empty afterwards.
RemoveAt(v, id) == [v EXCEPT ![id + 1] = NoValue]

\* capacity_check of s from start to end when nothing makes it wait: the
\* slot vector and the recorded capacity it leaves.
CheckedSlots(s) ==
    IF NewEntityCount(s) > 0
    THEN RegisterNewEntities(slots[s], NewEntityCount(s))
    ELSE slots[s]

CheckedCapacity(s) ==
    IF NewEntityCount(s) > 0 THEN boxCapacity[s] + 1 ELSE boxCapacity[s]

\* An exclusive guard taken on an AccessorState and dropped again.
WriteGuardCycle(a) == WriteDropped(WriteGranted(WriteEnter(a)))

\* Thread t can run a World call on s from start to end: it is inside no
\* call and holds nothing on s, the warehouse is free and s is Open with
\* nobody waiting.
Uncontended(t, s) ==
    /\ pc[t] = "idle" /\ Holds(t, s) = 0
    /\ whOwner = NoThread /\ ~whPoisoned
    /\ s \in registered
    /\ acc[s] = NewAccessorState

\* World::add_component(id, x) run from start to end: req_write_guard (the
\* capacity_check included), storage_guard.insert(id, x), the guard is
\* dropped, the prior value is returned.
AddComponent(t, s, id, x) ==
    /\ Uncontended(t, s)
    /\ id < Len(CheckedSlots(s))
    /\ ret' = [ret EXCEPT ![t] = SlotOf(CheckedSlots(s), id)]
    /\ slots' = [slots EXCEPT ![s] = InsertAt(CheckedSlots(s), id, x)]
    /\ boxCapacity' = [boxCapacity EXCEPT ![s] = CheckedCapacity(s)]
    /\ acc' = [acc EXCEPT ![s] = WriteGuardCycle(WriteGuardCycle(acc[s]))]
    /\ zeroed' = [zeroed EXCEPT ![s] = FALSE]
    /\ UNCHANGED missed
    /\ UNCHANGED <<pc, target, kind, rd, wr, whOwner, whCapacity, registered,
                   whPoisoned>>
    /\ UNCHANGED <<accPoisoned, entityVars>>

\* World::rm_component(id) run from start to end: req_write_guard,
\* storage_guard.remove(id), the guard is dropped.
RmComponent(t, s, id) ==
    /\ Uncontended(t, s)
    /\ id < Len(CheckedSlots(s))
    /\ ret' = [ret EXCEPT ![t] = SlotOf(CheckedSlots(s), id)]
    /\ slots' = [slots EXCEPT ![s] = RemoveAt(CheckedSlots(s), id)]
    /\ boxCapacity' = [boxCapacity EXCEPT ![s] = CheckedCapacity(s)]
    /\ acc' = [acc EXCEPT ![s] = WriteGuardCycle(WriteGuardCycle(acc[s]))]
    /\ zeroed' = [zeroed EXCEPT ![s] = FALSE]
    /\ UNCHANGED missed
    /\ UNCHANGED <<pc, target, kind, rd, wr, whOwner, whCapacity, registered,
                   whPoisoned>>
    /\ UNCHANGED <<accPoisoned, entityVars>>

\* World::req_write_guard::<s>() run from start to end, the guard being
\* dropped without a write: only capacity_check acts on the storage.
CheckoutAndDrop(t, s) ==
    /\ Uncontended(t, s)
    /\ slots' = [slots EXCEPT ![s] = CheckedSlots(s)]
    /\ boxCapacity' = [boxCapacity EXCEPT ![s] = CheckedCapacity(s)]
    /\ acc' = [acc EXCEPT ![s] = WriteGuardCycle(WriteGuardCycle(acc[s]))]
    /\ zeroed' = [zeroed EXCEPT ![s] = FALSE]
    /\ UNCHANGED missed
    /\ UNCHANGED <<pc, target, kind, rd, wr, whOwner, whCapacity, registered,
                   whPoisoned, ret>>
    /\ UNCHANGED <<accPoisoned, entityVars>>

\* The thread that works on the component data, and the component type T it
\* adds and removes; the storages of the other types are only checked out.
DataThreads == {"t1"}
DataStorage == "X"

DataNext ==
    \/ \E t \in DataThreads, id \in Ids, x \in Values :
            AddComponent(t, DataStorage, id, x)
    \/ \E t \in DataThreads, id \in Ids : RmComponent(t, DataStorage, id)
    \/ \E t \in DataThreads, s \in Storages : CheckoutAndDrop(t, s)
    \/ \E n \in 1..MaxCapacity : LazyLengthen(n)

DataSpec == Init /\ [][DataNext]_vars

-----------------------------------------------------------------------------
(* Entities: entity ids.  Every call below runs from start to end under    *)
(* the mutex it locks (World.entities, and World.warehouse for             *)
(* maintain_ecs).                                                          *)

\* life[id] after id was handed out.
HandedOut(l) ==
    IF l = "never" THEN "living"
    ELSE IF l \in {"removed", "swept"} THEN "recycled" ELSE l

\* World::create_entity(): the call into Entities is commented out, the
\* function returns the literal 0 (world.rs 45-55).
CreateEntity(t) ==
    /\ pc[t] = "idle"
    /\ created < MaxCapacity
    /\ ret' = [ret EXCEPT ![t] = 0]
    /\ created' = created + 1
    /\ life' = [life EXCEPT ![0] = HandedOut(life[0])]
    /\ UNCHANGED <<acc, pc, target, kind, rd, wr, zeroed, missed, whOwner, whCapacity,
                   boxCapacity, registered, whPoisoned, slots, accPoisoned,
                   num_entities, active_entities, dead_entities>>

\* A get_next_id that answers the oldest dead id while the newest one is
\* popped.
NextIdOldestDead ==
    IF dead_entities # <<>> THEN dead_entities[1] ELSE num_entities

\* Entities::get_next_id: the id popped from dead_entities when there is
\* one, else num_entities.
NextId ==
    IF dead_entities # <<>>
    THEN dead_entities[Len(dead_entities)]
    ELSE num_entities

\* Entities::new_entity_id(): get_next_id, insert into active_entities,
\* num_entities += 1.
NewEntityId(t) ==
    /\ pc[t] = "idle"
    /\ num_entities < MaxEntities
    /\ ret' = [ret EXCEPT ![t] = NextId]
    /\ dead_entities' = IF dead_entities # <<>>
                        THEN SubSeq(dead_entities, 1, Len(dead_entities) - 1)
                        ELSE dead_entities
    /\ active_entities' = active_entities \cup {NextId}
    /\ num_entities' = num_entities + 1
    /\ life' = [life EXCEPT ![NextId] = HandedOut(life[NextId])]
    /\ UNCHANGED <<acc, pc, target, kind, rd, wr, zeroed, missed, whOwner, whCapacity,
                   boxCapacity, registered, whPoisoned, slots, accPoisoned,
                   created>>

\* An rm_entity that pushes e to dead_entities and leaves it active.
RmEntityKeepsActive(t, e) ==
    /\ pc[t] = "idle"
    /\ IF e \in active_entities
       THEN /\ dead_entities' = Append(dead_entities, e)
            /\ UNCHANGED active_entities
       ELSE UNCHANGED <<active_entities, dead_entities>>
    /\ life' = [life EXCEPT ![e] =
                    IF @ \in {"living", "recycled"} THEN "removed" ELSE @]
    /\ UNCHANGED <<acc, pc, target, kind, rd, wr, zeroed, missed, whOwner, whCapacity,
                   boxCapacity, registered, whPoisoned, slots, ret, accPoisoned,
                   num_entities, created>>

\* World::rm_entity(e): Entities::rm_entity moves e from active_entities
\* to dead_entities when it is active and does nothing otherwise.
RmEntity(t, e) ==
    /\ pc[t] = "idle"
    /\ IF e \in active_entities
       THEN /\ active_entities' = active_entities \ {e}
            /\ dead_entities' = Append(dead_entities, e)
       ELSE UNCHANGED <<active_entities, dead_entities>>
    /\ life' = [life EXCEPT ![e] =
                    IF @ \in {"living", "recycled"} THEN "removed" ELSE @]
    /\ UNCHANGED <<acc, pc, target, kind, rd, wr, zeroed, missed, whOwner, whCapacity,
                   boxCapacity, registered, whPoisoned, slots, ret, accPoisoned,
                   num_entities, created>>

\* World::maintain_ecs(): locks the warehouse and the entities; the loop
\* over the dead entities is commented out, nothing else is done.
MaintainEcs(t) ==
    /\ pc[t] = "idle"
    /\ whOwner = NoThread /\ ~whPoisoned
    /\ life' = [id \in EntityIds |->
                    IF life[id] = "removed" THEN "swept" ELSE life[id]]
    /\ UNCHANGED <<acc, pc, target, kind, rd, wr, zeroed, missed, whOwner, whCapacity,
                   boxCapacity, registered, whPoisoned, slots, ret, accPoisoned,
                   num_entities, active_entities, dead_entities, created>>

\* One thread creates and removes entities, attaches components of type T
\* to them and maintains the ECS.
EntityNext ==
    \/ \E t \in DataThreads : CreateEntity(t)
    \/ \E t \in DataThreads : NewEntityId(t)
    \/ \E t \in DataThreads, e \in EntityIds : RmEntity(t, e)
    \/ \E t \in DataThreads : MaintainEcs(t)
    \/ \E t \in DataThreads, id \in Ids, x \in Values :
            AddComponent(t, DataStorage, id, x)
    \/ \E n \in 1..MaxCapacity : LazyLengthen(n)

EntitySpec == Init /\ [][EntityNext]_vars

\* The Entities of entity/mod.rs on their own: every sequence of
\* new_entity_id and rm_entity calls.
EntitiesNext ==
    \/ \E t \in DataThreads : NewEntityId(t)
    \/ \E t \in DataThreads, e \in EntityIds : RmEntity(t, e)

EntitiesSpec == Init /\ [][EntitiesNext]_vars

-----------------------------------------------------------------------------
(* storage_guard.rs: ImmutableStorageGuard / MutableStorageGuard as they   *)
(* are in that file.  new() stores the Arc<Storage> and nothing else; Drop *)
(* locks Accessor.mtx and releases.                                        *)

\* ImmutableStorageGuard::new(storage): lines 30-34.
ImmutableGuardNew(t, s) ==
    /\ pc[t] = "idle"
    /\ Holds(t, s) < MaxHold
    /\ rd' = [rd EXCEPT ![t][s] = rd[t][s] + 1]
    /\ UNCHANGED <<acc, pc, target, wr, zeroed, missed, worldVars, accPoisoned, entityVars>>

\* MutableStorageGuard::new(storage): lines 61-63.
MutableGuardNew(t, s) ==
    /\ pc[t] = "idle"
    /\ Holds(t, s) < MaxHold
    /\ wr' = [wr EXCEPT ![t][s] = wr[t][s] + 1]
    /\ UNCHANGED <<acc, pc, target, rd, zeroed, missed, worldVars, accPoisoned, entityVars>>

\* Drop for ImmutableStorageGuard, lines 106-124, on a u16 that wraps.
GuardReadDropped(a) ==
    LET b == [a EXCEPT !.readers = (a.readers - 1) % (U16Max + 1)]
    IN  IF b.readers = 0 THEN [b EXCEPT !.write_allowed = TRUE] ELSE b

\* Drop for ImmutableStorageGuard: lines 95-133.  lock().expect(..) panics
\* on a poisoned mutex.  `readers -= 1` at readers = 0 overflows: the build
\* with overflow checks panics with the MutexGuard alive (the mutex is
\* poisoned), the build without them wraps (`wraps`).
ImmutableGuardDrop(t, s) ==
    /\ pc[t] = "idle"
    /\ rd[t][s] > 0
    /\ acc[s].readers = 0 \/ acc[s].readers > U16Max - MaxUnderflow
          \/ acc[s].readers <= Cardinality(Threads) * MaxHold
    /\ rd' = [rd EXCEPT ![t][s] = rd[t][s] - 1]
    /\ \E wraps \in BOOLEAN :
         IF s \in accPoisoned \/ (acc[s].readers = 0 /\ ~wraps)
         THEN /\ pc' = [pc EXCEPT ![t] = "panicked"]
              /\ accPoisoned' = accPoisoned \cup {s}
              /\ UNCHANGED <<acc, zeroed, missed>>
         ELSE LET a == GuardReadDropped(acc[s]) IN
              /\ acc' = [acc EXCEPT ![s] = a]
              /\ zeroed' = [zeroed EXCEPT ![s] = (a.readers = 0)]
              /\ UNCHANGED missed
              /\ \E one \in NotifyChoices(s) : pc' = Notified(pc, s, a, one)
              /\ UNCHANGED accPoisoned
    /\ UNCHANGED <<target, wr, worldVars, entityVars>>

\* Drop for MutableStorageGuard: lines 135-156.
MutableGuardDrop(t, s) ==
    /\ pc[t] = "idle"
    /\ wr[t][s] > 0
    /\ wr' = [wr EXCEPT ![t][s] = wr[t][s] - 1]
    /\ IF s \in accPoisoned
       THEN /\ pc' = [pc EXCEPT ![t] = "panicked"]
            /\ UNCHANGED <<acc, zeroed, missed>>
       ELSE LET a == WriteDropped(acc[s]) IN
            /\ acc' = [acc EXCEPT ![s] = a]
            /\ zeroed' = [zeroed EXCEPT ![s] = FALSE]
            /\ UNCHANGED missed
            /\ \E one \in NotifyChoices(s) : pc' = Notified(pc, s, a, one)
    /\ UNCHANGED <<target, rd, worldVars, accPoisoned, entityVars>>

\* Threads that construct and drop the guards of storage_guard.rs.
GuardNext ==
    \/ \E t \in Threads, s \in Storages : ImmutableGuardNew(t, s)
    \/ \E t \in Threads, s \in Storages : MutableGuardNew(t, s)
    \/ \E t \in Threads, s \in Storages : ImmutableGuardDrop(t, s)
    \/ \E t \in Threads, s \in Storages : MutableGuardDrop(t, s)

GuardSpec == Init /\ [][GuardNext]_vars

-----------------------------------------------------------------------------
(* accessor.rs: the earlier Accessor.  Its AccessorState has no            *)
(* writers_waiting (the field stays 0 here); access is taken in            *)
(* AccessGuard::val / val_mut and released in Drop, which tells a reader's *)
(* guard from a writer's by the two flags.  Each guard is used for one     *)
(* val or val_mut call and then dropped.                                   *)

\* AccessGuard::val after wait_while returned: lines 83-84.
ValGranted(a) ==
    [a EXCEPT !.write_allowed = FALSE, !.readers = a.readers + 1]

\* AccessGuard::val_mut after wait_while returned: lines 107-108.
ValMutGranted(a) ==
    [a EXCEPT !.read_allowed = FALSE, !.write_allowed = FALSE]

\* One evaluation of wait_while's predicate in val (`write` FALSE) or
\* val_mut (`write` TRUE) by t on s; the mutex is found poisoned or not.
ValAttempt(t, s, write, waitPc) ==
    IF s \in accPoisoned
    THEN /\ pc' = [pc EXCEPT ![t] = "panicked"]
         /\ UNCHANGED <<acc, rd, wr, zeroed, missed, target>>
    ELSE LET granted == IF write THEN acc[s].write_allowed
                                 ELSE acc[s].read_allowed
         IN  IF granted
             THEN /\ acc' = [acc EXCEPT ![s] = IF write THEN ValMutGranted(acc[s])
                                                         ELSE ValGranted(acc[s])]
                  /\ rd' = IF write THEN rd ELSE [rd EXCEPT ![t][s] = rd[t][s] + 1]
                  /\ wr' = IF write THEN [wr EXCEPT ![t][s] = wr[t][s] + 1] ELSE wr
                  /\ zeroed' = [zeroed EXCEPT ![s] = FALSE]
                  /\ UNCHANGED missed
                  /\ pc' = [pc EXCEPT ![t] = "idle"]
                  /\ target' = [target EXCEPT ![t] = NoStorage]
             ELSE /\ pc' = [pc EXCEPT ![t] = waitPc]
                  /\ target' = [target EXCEPT ![t] = s]
                  /\ UNCHANGED <<acc, rd, wr, zeroed, missed>>

\* AccessGuard::val: lines 66-89.
Val(t, s) ==
    /\ pc[t] = "idle"
    /\ Holds(t, s) < MaxHold
    /\ ValAttempt(t, s, FALSE, "r_wait")
    /\ UNCHANGED <<worldVars, accPoisoned, entityVars>>

\* AccessGuard::val_mut: lines 91-113.
ValMut(t, s) ==
    /\ pc[t] = "idle"
    /\ Holds(t, s) < MaxHold
    /\ ValAttempt(t, s, TRUE, "w_wait")
    /\ UNCHANGED <<worldVars, accPoisoned, entityVars>>

\* A thread woken inside wait_while of val re-locks and re-checks.
ValRecheck(t) ==
    /\ pc[t] = "r_woken"
    /\ ValAttempt(t, target[t], FALSE, "r_wait")
    /\ UNCHANGED <<worldVars, accPoisoned, entityVars>>

\* The same inside val_mut.
ValMutRecheck(t) ==
    /\ pc[t] = "w_woken"
    /\ ValAttempt(t, target[t], TRUE, "w_wait")
    /\ UNCHANGED <<worldVars, accPoisoned, entityVars>>

\* Drop for AccessGuard, the state it leaves: (false, false) is taken for a
\* writer's guard, (false, true) for a reader's; readers is a u8.
AccessDropped(a) ==
    IF ~a.write_allowed /\ ~a.read_allowed
    THEN [a EXCEPT !.write_allowed = TRUE, !.read_allowed = TRUE]
    ELSE LET b == [a EXCEPT !.readers = a.readers - 1]
         IN  IF b.readers = 0 THEN [b EXCEPT !.write_allowed = TRUE] ELSE b

\* Drop for AccessGuard, its notification: a writer's drop calls
\* reader_cvar.notify_all, a reader's drop that leaves no reader calls
\* writer_cvar.notify_one (`one`), any other drop notifies nobody.
AccessNotified(s, a, one) ==
    IF ~a.write_allowed /\ ~a.read_allowed
    THEN [t \in Threads |->
            IF t \in ParkedReaders(s) THEN WokenPc(pc[t]) ELSE pc[t]]
    ELSE IF a.readers = 1
    THEN [t \in Threads |-> IF t = one THEN WokenPc(pc[t]) ELSE pc[t]]
    ELSE pc

\* Drop for AccessGuard: lines 127-188.  Any other pair of flags, or a
\* poisoned mutex, is a panic; it has the MutexGuard alive.
AccessGuardDrop(t, s) ==
    /\ pc[t] = "idle"
    /\ Holds(t, s) > 0
    /\ rd' = [rd EXCEPT ![t][s] = IF rd[t][s] > 0 THEN rd[t][s] - 1 ELSE 0]
    /\ wr' = [wr EXCEPT ![t][s] = IF rd[t][s] > 0 THEN wr[t][s] ELSE wr[t][s] - 1]
    /\ IF s \in accPoisoned \/ acc[s].write_allowed
       THEN /\ pc' = [pc EXCEPT ![t] = "panicked"]
            /\ accPoisoned' = accPoisoned \cup {s}
            /\ UNCHANGED <<acc, zeroed, missed>>
       ELSE /\ acc' = [acc EXCEPT ![s] = AccessDropped(acc[s])]
            /\ zeroed' = [zeroed EXCEPT ![s] =
                            (acc[s].read_allowed /\ acc[s].readers = 1)]
            /\ UNCHANGED missed
            /\ \E one \in NotifyChoices(s) : pc' = AccessNotified(s, acc[s], one)
            /\ UNCHANGED accPoisoned
    /\ UNCHANGED <<target, worldVars, entityVars>>

FlipFlopNext ==
    \/ \E t \in Threads, s \in Storages : Val(t, s)
    \/ \E t \in Threads, s \in Storages : ValMut(t, s)
    \/ \E t \in Threads : ValRecheck(t)
    \/ \E t \in Threads : ValMutRecheck(t)
    \/ \E t \in Threads, s \in Storages : AccessGuardDrop(t, s)
    \/ \E t \in Threads : SpuriousWake(t)

\* Scheduling: a woken thread gets to re-check, and a thread that holds a
\* guard and is not inside a call drops it.
FlipFlopFairness ==
    /\ \A t \in Threads : WF_vars(ValRecheck(t)) /\ WF_vars(ValMutRecheck(t))
    /\ \A t \in Threads, s \in Storages : WF_vars(AccessGuardDrop(t, s))

FlipFlopSpec == Init /\ [][FlipFlopNext]_vars /\ FlipFlopFairness

\* AccessGuard::new (lines 57-64, which touches no AccessorState) followed by
\* the drop of that guard with neither val nor val_mut called on it: the
\* same Drop runs, for a guard that obtained no access.
AccessGuardUnusedDrop(t, s) ==
    /\ pc[t] = "idle"
    /\ IF s \in accPoisoned \/ acc[s].write_allowed
       THEN /\ pc' = [pc EXCEPT ![t] = "panicked"]
            /\ accPoisoned' = accPoisoned \cup {s}
            /\ UNCHANGED <<acc, zeroed, missed>>
       ELSE /\ acc' = [acc EXCEPT ![s] = AccessDropped(acc[s])]
            /\ zeroed' = [zeroed EXCEPT ![s] =
                            (acc[s].read_allowed /\ acc[s].readers = 1)]
            /\ UNCHANGED missed
            /\ \E one \in NotifyChoices(s) : pc' = AccessNotified(s, acc[s], one)
            /\ UNCHANGED accPoisoned
    /\ UNCHANGED <<target, rd, wr, worldVars, entityVars>>

\* The earlier Accessor with guards that are used for a val or a val_mut
\* call and guards that are dropped unused.
AccessGuardNext ==
    \/ \E t \in Threads, s \in Storages : Val(t, s)
    \/ \E t \in Threads, s \in Storages : ValMut(t, s)
    \/ \E t \in Threads : ValRecheck(t)
    \/ \E t \in Threads : ValMutRecheck(t)
    \/ \E t \in Threads, s \in Storages : AccessGuardDrop(t, s)
    \/ \E t \in Threads, s \in Storages : AccessGuardUnusedDrop(t, s)
    \/ \E t \in Threads : SpuriousWake(t)

AccessGuardSpec == Init /\ [][AccessGuardNext]_vars

-----------------------------------------------------------------------------
(* accessor/mod.rs: the same AccessorState, val and val_mut as accessor.rs; *)
(* Drop changes the state in the same way and notifies differently.        *)

\* Drop for AccessGuard of accessor/mod.rs, its notification: a writer's
\* drop and a reader's drop that leaves no reader call
\* writer_cvar.notify_one (`one`), a reader's drop that leaves readers calls
\* reader_cvar.notify_all.
AccessModNotified(s, a, one) ==
    IF (~a.write_allowed /\ ~a.read_allowed) \/ a.readers = 1
    THEN [t \in Threads |-> IF t = one THEN WokenPc(pc[t]) ELSE pc[t]]
    ELSE [t \in Threads |->
            IF t \in ParkedReaders(s) THEN WokenPc(pc[t]) ELSE pc[t]]

\* Drop for AccessGuard of accessor/mod.rs: lines 116-166.
AccessModGuardDrop(t, s) ==
    /\ pc[t] = "idle"
    /\ Holds(t, s) > 0
    /\ rd' = [rd EXCEPT ![t][s] = IF rd[t][s] > 0 THEN rd[t][s] - 1 ELSE 0]
    /\ wr' = [wr EXCEPT ![t][s] = IF rd[t][s] > 0 THEN wr[t][s] ELSE wr[t][s] - 1]
    /\ IF s \in accPoisoned \/ acc[s].write_allowed
       THEN /\ pc' = [pc EXCEPT ![t] = "panicked"]
            /\ accPoisoned' = accPoisoned \cup {s}
            /\ UNCHANGED <<acc, zeroed, missed>>
       ELSE /\ acc' = [acc EXCEPT ![s] = AccessDropped(acc[s])]
            /\ zeroed' = [zeroed EXCEPT ![s] =
                            (acc[s].read_allowed /\ acc[s].readers = 1)]
            /\ UNCHANGED missed
            /\ \E one \in NotifyChoices(s) :
                    pc' = AccessModNotified(s, acc[s], one)
            /\ UNCHANGED accPoisoned
    /\ UNCHANGED <<target, worldVars, entityVars>>

AccessModNext ==
    \/ \E t \in Threads, s \in Storages : Val(t, s)
    \/ \E t \in Threads, s \in Storages : ValMut(t, s)
    \/ \E t \in Threads : ValRecheck(t)
    \/ \E t \in Threads : ValMutRecheck(t)
    \/ \E t \in Threads, s \in Storages : AccessModGuardDrop(t, s)
    \/ \E t \in Threads : SpuriousWake(t)

\* Scheduling: a woken thread gets to re-check, and a thread that holds a
\* guard and is not inside a call drops it.
AccessModFairness ==
    /\ \A t \in Threads : WF_vars(ValRecheck(t)) /\ WF_vars(ValMutRecheck(t))
    /\ \A t \in Threads, s \in Storages : WF_vars(AccessModGuardDrop(t, s))

AccessModSpec == Init /\ [][AccessModNext]_vars /\ AccessModFairness

-----------------------------------------------------------------------------
(* Properties.                                                             *)

ReadHolders(s) == {t \in Threads : rd[t][s] > 0}
WriteHolders(s) == {t \in Threads : wr[t][s] > 0}

IsOpen(s) ==
    /\ acc[s].readers = 0 /\ acc[s].read_allowed /\ acc[s].write_allowed
    /\ ReadHolders(s) = {} /\ WriteHolders(s) = {}

IsReading(s) ==
    /\ acc[s].readers > 0 /\ acc[s].read_allowed /\ ~acc[s].write_allowed
    /\ ReadHolders(s) # {} /\ WriteHolders(s) = {}

IsWriting(s) ==
    /\ acc[s].readers = 0 /\ ~acc[s].read_allowed /\ ~acc[s].write_allowed
    /\ Cardinality(WriteHolders(s)) = 1 /\ ReadHolders(s) = {}

\* C1: mutual exclusion. A thread that holds an exclusive guard on a storage
\* holds exactly one, and no other guard (shared or exclusive, its own or
\* another thread's) exists on that storage.
C1_MutualExclusion ==
    \A s \in Storages : \A t \in Threads :
        wr[t][s] > 0 =>
            /\ wr[t][s] = 1 /\ rd[t][s] = 0
            /\ \A u \in Threads \ {t} : rd[u][s] = 0 /\ wr[u][s] = 0

\* C1 witness: an exclusive guard is held while another thread has asked
\* for access to the same storage and waits.
C1_Witness ==
    \E s \in Storages : \E t \in Threads :
        /\ wr[t][s] = 1
        /\ BlockedReaders(s) # {} /\ BlockedWriters(s) # {}

\* C2: every AccessorState is Open, Reading(n) or Writing; both flags are
\* false while a writer holds access and write_allowed is false while
\* readers > 0.
C2_StateMachine ==
    \A s \in Storages :
        /\ IsOpen(s) \/ IsReading(s) \/ IsWriting(s)
        /\ WriteHolders(s) # {} => ~acc[s].read_allowed /\ ~acc[s].write_allowed
        /\ acc[s].readers > 0 => ~acc[s].write_allowed

\* C2 witness: one storage is in Reading(2) while the other is in Writing.
C2_Witness ==
    \E s \in Storages : \E u \in Storages :
        IsReading(s) /\ acc[s].readers = 2 /\ IsWriting(u)

\* C3: invariant I1. With no reader and no writer holding access, both
\* flags are true.
C3_SelfHealing ==
    \A s \in Storages :
        (acc[s].readers = 0 /\ WriteHolders(s) = {}) =>
            (acc[s].read_allowed /\ acc[s].write_allowed)

\* C3 witness: a storage is free again after a release (a writer notified by
\* that release has not run yet) and both flags are true.
C3_Witness ==
    \E s \in Storages : \E t \in Threads :
        /\ acc[s].readers = 0 /\ WriteHolders(s) = {}
        /\ acc[s].read_allowed /\ acc[s].write_allowed
        /\ pc[t] = "w_woken" /\ target[t] = s /\ zeroed[s]

\* Threads of the checkout path that are inside wait_while.
Waiting(t) ==
    pc[t] \in {"r_wait", "r_woken", "w_wait", "w_woken", "cap_wait", "cap_woken"}

C5_WriterAtZero ==
    [][\A s \in Storages :
         (zeroed[s] /\ BlockedWriters(s) # {}) =>
            \A r \in Threads : pc[r] = "idle" => rd'[r][s] = rd[r][s]]_vars

\* C6: scenario. A holds a read guard on s, B is blocked in
\* init_write_access on s, and C, holding nothing on s, calls
\* init_read_access after B: C is not granted access ahead of B.
C6_ScenarioOrder ==
    [][\A s \in Storages : \A A \in Threads : \A B \in Threads \ {A} :
         \A C \in Threads \ {A, B} :
            (rd[A][s] > 0 /\ B \in BlockedWriters(s)
                /\ pc[C] = "idle" /\ Holds(C, s) = 0)
            => rd'[C][s] = 0]_vars

\* C7: writers cannot be starved. If every guard is dropped again and again,
\* a thread that parks in init_write_access is eventually granted access.
C7_WriterNotStarved ==
    (\A t \in Threads, s \in Storages : []<>(Holds(t, s) = 0))
        => \A w \in Threads : (pc[w] = "w_wait") ~> (pc[w] = "idle")

OrderedDeadlock(t, u) ==
    /\ pc[t] = "wh_lock" /\ whOwner = u
    /\ pc[u] \in {"w_wait", "w_woken", "cap_wait", "cap_woken"}
    /\ wr[t][target[u]] > 0

OrderedDeadlockIsForever ==
    [][\A t \in Threads : \A u \in Threads \ {t} :
         OrderedDeadlock(t, u) => OrderedDeadlock(t, u)']_vars

\* A thread inside init_write_access of s while holding a guard on s.
ReentrantBlocked(t, s) ==
    /\ pc[t] \in {"w_wait", "w_woken"} /\ target[t] = s /\ Holds(t, s) > 0

\* C11: re-entrant write deadlock. A thread that holds a guard on s gains no
\* exclusive guard on s in any step, and once it is inside init_write_access
\* of s it stays there with its guard.
C11_ReentrantWriteBlocks ==
    [][\A t \in Threads : \A s \in Storages :
         Holds(t, s) > 0 =>
            /\ wr'[t][s] <= wr[t][s]
            /\ ReentrantBlocked(t, s) => ReentrantBlocked(t, s)']_vars

\* C11 witness: a thread that holds the only shared guard on s has parked in
\* its write request on s and has been woken to re-check.
C11_Witness ==
    \E s \in Storages : \E t \in Threads :
        /\ pc[t] = "w_woken" /\ target[t] = s
        /\ rd[t][s] = 1 /\ acc[s].readers = 1 /\ acc[s].writers_waiting = 1

\* A step in which no thread starts a new init_read_access /
\* init_write_access call.
NoNewRequest ==
    \A t \in Threads :
        pc[t] = "idle" =>
            /\ pc'[t] = "idle"
            /\ \A s \in Storages : rd'[t][s] <= rd[t][s] /\ wr'[t][s] <= wr[t][s]

\* C12: no lost wake-up. When from some point on no new request is made and
\* every guard is dropped again and again, every thread inside
\* init_read_access or init_write_access is eventually granted access (from
\* some point on no thread is inside a call); in particular no thread stays
\* inside wait_while forever while its storage is Open.
C12_NoLostWakeup ==
    (/\ <>[][NoNewRequest]_vars
     /\ \A t \in Threads, s \in Storages : []<>(Holds(t, s) = 0))
    => <>[](\A t \in Threads : pc[t] = "idle")

\* C12 witness: a writer has released s, leaving it Open, while a reader is
\* parked on s and a second writer, notified by the release, is about to
\* re-check.
C12_Witness ==
    \E s \in Storages : \E r \in Threads : \E w \in Threads :
        /\ pc[r] = "r_wait" /\ target[r] = s
        /\ pc[w] = "w_woken" /\ target[w] = s
        /\ IsOpen(s) /\ acc[s].writers_waiting = 1

\* Thread t is inside register_component for a type that is registered.
DuplicateRegister(t) ==
    /\ kind[t] = "register" /\ pc[t] = "wh_lock" /\ target[t] \in registered

\* C13: registration discipline. A register call for a type that is already
\* registered is reported by a panic: it does not wait for the warehouse
\* behind a thread that never releases it, and it leaves the map as it is.
C13_DuplicateRegisterReported ==
    \A t \in Threads :
        DuplicateRegister(t) =>
            ~(whOwner # NoThread /\ pc[whOwner] = "reg_stuck")

\* A thread stuck in the second lock of register_component stays stuck and
\* keeps the warehouse; the duplicate call behind it never proceeds.
RegisterStuckIsForever ==
    [][\A t \in Threads :
         (whOwner # NoThread /\ pc[whOwner] = "reg_stuck") =>
            /\ whOwner' = whOwner /\ pc'[whOwner] = "reg_stuck"
            /\ DuplicateRegister(t) => DuplicateRegister(t)']_vars

\* Thread t is inside req_read_guard / req_write_guard for a type that is
\* not registered.
UnregisteredCheckout(t) ==
    /\ kind[t] \in {"read", "write"} /\ target[t] \notin registered
    /\ pc[t] \in {"wh_lock", "cap_check", "guard_new"}

\* C14: a checkout of a type that was never registered can only end in a
\* panic; no step of it grants a guard, changes an AccessorState or changes
\* the map.
C14_UnregisteredCheckoutPanics ==
    [][\A t \in Threads :
         (UnregisteredCheckout(t) /\ pc'[t] # pc[t]) =>
            /\ pc'[t] \in {"cap_check", "guard_new", "panicked"}
            /\ acc' = acc /\ rd' = rd /\ wr' = wr
            /\ registered' = registered /\ slots' = slots]_vars

\* C14 witness: with entity ids allocated, a checkout of an unregistered
\* type has ended in a panic inside checkout_storage.
C14_Witness ==
    \E t \in Threads :
        /\ pc[t] = "panicked" /\ kind[t] \in {"read", "write"}
        /\ target[t] \notin registered
        /\ whPoisoned /\ whCapacity > 0
        /\ \A u \in Threads \ {t} : pc[u] # "panicked"

\* Thread t is past capacity_check of its req_read_guard / req_write_guard:
\* the guard is being constructed, with the warehouse still locked by t.
HandingOut(t) ==
    /\ whOwner = t
    /\ pc[t] \in {"guard_new", "r_wait", "r_woken", "w_wait", "w_woken"}

\* C15: when a checkout hands out a guard on a storage, the slot count of
\* that storage is at least the number of entity ids allocated so far.
C15_SlotsCoverEntities ==
    \A t \in Threads :
        HandingOut(t) => Len(slots[target[t]]) >= whCapacity

\* C15 witness: two entity ids were allocated at once, capacity_check has
\* lengthened the storage and its guard is about to be handed out.
C15_Witness ==
    \E t \in Threads :
        /\ HandingOut(t) /\ pc[t] = "guard_new"
        /\ whCapacity = 2 /\ boxCapacity[target[t]] = 1
        /\ Len(slots[target[t]]) = 2

\* C16: capacity equality. After capacity_check has run for a storage, its
\* recorded capacity and its slot count both equal the warehouse capacity.
C16_CapacityEquality ==
    \A t \in Threads :
        HandingOut(t) =>
            /\ boxCapacity[target[t]] = whCapacity
            /\ Len(slots[target[t]]) = whCapacity

\* C17: capacity monotonicity. No slot count ever decreases; a checkout keeps
\* the slots that were addressable with their contents, the slots it adds
\* are empty, and it leaves exactly the allocated ids addressable (k further
\* ids for a growth by k).
C17_CapacityMonotone ==
    [][\A s \in Storages :
         /\ Len(slots'[s]) >= Len(slots[s])
         /\ \A t \in DataThreads :
              CheckoutAndDrop(t, s) =>
                /\ SubSeq(slots'[s], 1, Len(slots[s])) = slots[s]
                /\ \A i \in (Len(slots[s]) + 1)..Len(slots'[s]) :
                        slots'[s][i] = NoValue
                /\ Len(slots'[s]) = whCapacity]_vars

\* What get(id) answers on a slot vector the guard has not grown yet: the
\* slot of id, and nothing for a slot the next checkout is going to add.
Stored(s, id) ==
    IF id < Len(slots[s]) THEN SlotOf(slots[s], id) ELSE NoValue

\* The step writes the slot of id in the storage of type T.
WritesSlot(id) ==
    \E t \in DataThreads :
        \/ \E x \in Values : AddComponent(t, DataStorage, id, x)
        \/ RmComponent(t, DataStorage, id)

C19_ReturnsPrior ==
    [][\A t \in DataThreads : \A id \in Ids :
         /\ \A x \in Values :
              AddComponent(t, DataStorage, id, x) =>
                /\ ret'[t] = Stored(DataStorage, id)
                /\ SlotOf(slots'[DataStorage], id) = x
         /\ RmComponent(t, DataStorage, id) =>
                /\ ret'[t] = Stored(DataStorage, id)
                /\ SlotOf(slots'[DataStorage], id) = NoValue]_vars

\* C19 witness: a write has returned the value 1 it found, and the value 2
\* is stored.
C19_Witness ==
    /\ ret["t1"] = 1
    /\ \E id \in Ids :
          /\ id < Len(slots[DataStorage])
          /\ SlotOf(slots[DataStorage], id) = 2

\* C20: frame. insert(id, x) and remove(id) leave every other slot of the
\* storage, the slot count the checkout handed out, and every other storage
\* as they are.
C20_WriteFrame ==
    [][\A id \in Ids :
         WritesSlot(id) =>
            /\ Len(slots'[DataStorage]) = Len(CheckedSlots(DataStorage))
            /\ \A j \in 0..(Len(slots'[DataStorage]) - 1) :
                  j # id => SlotOf(slots'[DataStorage], j) = Stored(DataStorage, j)
            /\ \A s \in Storages \ {DataStorage} :
                  /\ slots'[s] = slots[s]
                  /\ boxCapacity'[s] = boxCapacity[s]
                  /\ acc'[s] = acc[s]]_vars

\* C20 witness: the storage of T holds a value at id 1 next to a value at
\* id 0, and another storage has slots.
C20_Witness ==
    /\ Len(slots[DataStorage]) >= 2
    /\ SlotOf(slots[DataStorage], 0) = 1
    /\ SlotOf(slots[DataStorage], 1) = 2
    /\ \E s \in Storages \ {DataStorage} : Len(slots[s]) >= 2

RECURSIVE Total(_, _)
\* The sum of f over the threads of S.
Total(f, S) ==
    IF S = {} THEN 0
    ELSE LET t == CHOOSE x \in S : TRUE IN f[t] + Total(f, S \ {t})

\* The shared / exclusive guards alive on s.
LiveShared(s) == Total([t \in Threads |-> rd[t][s]], Threads)
LiveExclusive(s) == Total([t \in Threads |-> wr[t][s]], Threads)

\* C21: guard lifecycle. The reader count of a storage equals the number of
\* live shared guards on it (every guard acquired on construction and
\* released once on drop), and at most one exclusive guard is live.
C21_GuardLifecycle ==
    \A s \in Storages :
        /\ acc[s].readers = LiveShared(s)
        /\ LiveExclusive(s) <= 1

\* No entity has been removed so far.
NoRemoval == \A id \in EntityIds : life[id] \in {"never", "living"}

\* C22: on a fresh World with no entity removed, the n-th call of
\* create_entity returns n - 1, so successive calls return distinct ids.
C22_SequentialIds ==
    [][\A t \in DataThreads :
         (CreateEntity(t) /\ NoRemoval) => ret'[t] = created]_vars

\* C23: an id that was removed is handed out again (by create_entity, or by
\* the allocator new_entity_id) only when no storage holds a value at it.
C23_NoReuseWhileOccupied ==
    [][\A t \in DataThreads :
         (/\ CreateEntity(t) \/ NewEntityId(t)
          /\ life[ret'[t]] \in {"removed", "swept"})
         => \A s \in Storages : Stored(s, ret'[t]) = NoValue]_vars

\* C24: when maintain_ecs returns, no registered storage holds a component
\* of an entity removed before the call, and the components of the living
\* entities are as they were.
C24_MaintainSweeps ==
    [][\A t \in DataThreads :
         MaintainEcs(t) =>
            \A s \in registered : \A id \in Ids :
                id < Len(slots'[s]) =>
                    /\ life[id] = "removed" => SlotOf(slots'[s], id) = NoValue
                    /\ life[id] \in {"living", "recycled"} =>
                            SlotOf(slots'[s], id) = Stored(s, id)]_vars

\* C25: the earlier Accessor starves neither readers nor writers. If every
\* guard is dropped again and again, a thread blocked in val or val_mut is
\* eventually granted access.
C25_FlipFlopNoStarvation ==
    (\A t \in Threads, s \in Storages : []<>(Holds(t, s) = 0))
        => \A b \in Threads :
              (pc[b] \in {"r_wait", "r_woken", "w_wait", "w_woken"})
                  ~> (pc[b] = "idle")

\* The step releases a guard on s (drop_read_access / drop_write_access).
Released(s) ==
    \E t \in Threads : rd'[t][s] < rd[t][s] \/ wr'[t][s] < wr[t][s]

\* The threads parked on a condition variable of s that the step wakes.
WokenBy(s) ==
    {t \in ParkedReaders(s) \cup ParkedWriters(s) : pc'[t] = WokenPc(pc[t])}

\* C26 as stated: a release made with writers_waiting > 0 wakes exactly one
\* thread parked on the writer condition and no reader; any other release
\* wakes every thread parked on the reader condition and no writer.
C26_ExactlyOneWriter ==
    [][\A s \in Storages :
         Released(s) =>
            IF acc[s].writers_waiting > 0
            THEN /\ Cardinality(WokenBy(s) \cap ParkedWriters(s)) = 1
                 /\ WokenBy(s) \cap ParkedReaders(s) = {}
            ELSE /\ ParkedReaders(s) \subseteq WokenBy(s)
                 /\ WokenBy(s) \cap ParkedWriters(s) = {}]_vars

\* C26 amended: a release made with writers_waiting > 0 wakes one thread
\* parked on the writer condition when one is parked there, nobody when
\* every waiting writer is awake already, and in both cases no reader; any
\* other release wakes every thread parked on the reader condition and no
\* writer.
C26_ReleasePolicy ==
    [][\A s \in Storages :
         Released(s) =>
            IF acc[s].writers_waiting > 0
            THEN /\ Cardinality(WokenBy(s) \cap ParkedWriters(s)) =
                        IF ParkedWriters(s) = {} THEN 0 ELSE 1
                 /\ WokenBy(s) \cap ParkedReaders(s) = {}
            ELSE /\ ParkedReaders(s) \subseteq WokenBy(s)
                 /\ WokenBy(s) \cap ParkedWriters(s) = {}]_vars

\* C26 witness: after a release on s with two writers waiting, one of them
\* is awake and the other one is still parked.
C26_Witness ==
    \E s \in Storages : \E w \in Threads : \E v \in Threads :
        /\ IsOpen(s) /\ ~zeroed[s] /\ acc[s].writers_waiting = 2
        /\ pc[w] = "w_woken" /\ target[w] = s
        /\ pc[v] = "w_wait" /\ target[v] = s

\* The step grants shared / exclusive access to s.
ReadGrantStep(s) == \E t \in Threads : rd'[t][s] > rd[t][s]
WriteGrantStep(s) == \E t \in Threads : wr'[t][s] > wr[t][s]

\* C27: the staleness the documentation accepts happens. missed[s] counts
\* exclusive grants only, each made with no guard on s left and with a reader
\* blocked on s that the grant leaves blocked, and a shared grant on s
\* resets the count: a count of two is two writers holding s one after the
\* other with no reader granted in between and a reader blocked throughout.
\* A reader woken by a release that finds a writer holding its storage parks
\* again without access.
C27_AcceptedStaleness ==
    /\ [](\A s \in Storages : missed[s] > 0 => BlockedReaders(s) # {})
    /\ [][\A s \in Storages :
            /\ missed'[s] > missed[s] =>
                    /\ WriteGrantStep(s) /\ ~ReadGrantStep(s)
                    /\ ReadHolders(s) = {} /\ WriteHolders(s) = {}
                    /\ BlockedReaders(s) # {}
                    /\ \A r \in BlockedReaders(s) :
                            pc'[r] = pc[r] /\ target'[r] = s
            /\ ReadGrantStep(s) => missed'[s] = 0]_vars
    /\ [][\A r \in Threads :
            (/\ ReadRecheck(r)
             /\ WriteHolders(target[r]) # {}) =>
                /\ pc'[r] = "r_wait" /\ target'[r] = target[r]
                /\ rd' = rd]_vars

\* C27 witness: two exclusive grants on s in a row were waited through by a
\* reader that a release has woken since and that finds a writer holding s.
C27_Witness ==
    \E s \in Storages : \E r \in Threads :
        /\ missed[s] >= 2
        /\ pc[r] = "r_woken" /\ target[r] = s
        /\ BlockedReaders(s) = {r}
        /\ WriteHolders(s) # {}

\* C28: writers_waiting of a storage is the number of threads that entered
\* init_write_access on it and were not granted access yet, parked or awake;
\* a writer that was granted access is not counted, and the count is never
\* negative.
C28_WritersWaitingCount ==
    \A s \in Storages :
        /\ acc[s].writers_waiting = Cardinality(BlockedWriters(s))
        /\ acc[s].writers_waiting >= 0

\* C28 witness: a writer holds s while two more wait for it, one parked and
\* one awake, and writers_waiting is 2.
C28_Witness ==
    \E s \in Storages : \E w \in Threads : \E v \in Threads :
        /\ WriteHolders(s) # {} /\ acc[s].writers_waiting = 2
        /\ pc[w] = "w_woken" /\ target[w] = s
        /\ pc[v] = "w_wait" /\ target[v] = s

\* C29: drop_read_access leaves read_allowed and writers_waiting alone, takes
\* one off readers, and sets write_allowed exactly when no reader is left;
\* init_read_access leaves read_allowed and writers_waiting alone, granted
\* or not.
C29_ReadFrame ==
    [][\A t \in Threads : \A s \in Storages :
         /\ DropReadAccess(t, s) =>
                /\ acc'[s].read_allowed = acc[s].read_allowed
                /\ acc'[s].writers_waiting = acc[s].writers_waiting
                /\ acc'[s].readers = acc[s].readers - 1
                /\ acc'[s].write_allowed =
                        IF acc'[s].readers = 0 THEN TRUE ELSE acc[s].write_allowed
         /\ (InitReadAccess(t, s) \/ (ReadRecheck(t) /\ target[t] = s)) =>
                /\ acc'[s].read_allowed = acc[s].read_allowed
                /\ acc'[s].writers_waiting = acc[s].writers_waiting]_vars

\* C29 witness: the latest step on s was a drop_read_access that left no
\* reader: write access is open again, read access is still open and the
\* waiting writer is still counted.
C29_Witness ==
    \E s \in Storages :
        /\ zeroed[s] /\ acc[s].readers = 0
        /\ acc[s].read_allowed /\ acc[s].write_allowed
        /\ acc[s].writers_waiting = 1

\* C30: a register_component call for a type that is not registered yet
\* completes: its last step, the second warehouse.lock() of world.rs 123,
\* returns, the caller is out of the call with the warehouse released, and
\* the type is registered with a storage in the Open state.
C30_RegisterTerminates ==
    [][\A t \in Threads :
         RegisterRelock(t) =>
            /\ pc'[t] = "idle" /\ whOwner' = NoThread
            /\ target[t] \in registered'
            /\ acc'[target[t]] = NewAccessorState]_vars

\* C31: the assert of capacity_check never fails: the recorded capacity of
\* each storage is at most the warehouse capacity in every reachable state.
C31_CapacityAssertHolds ==
    \A s \in Storages : boxCapacity[s] <= whCapacity

\* C31 witness: a checkout evaluates the assert for a storage that
\* capacity_check has grown before, after further entity ids were created.
C31_Witness ==
    \E t \in Threads :
        /\ pc[t] = "cap_check" /\ whOwner = t
        /\ boxCapacity[target[t]] = 1 /\ whCapacity = 2

\* C32: the reader count never underflows: every drop of a shared guard
\* finds readers >= 1, and at least as many as the shared guards that are
\* live on the storage (each decrement has its increment).
C32_ReadersNoUnderflow ==
    [][\A t \in Threads : \A s \in Storages :
         ImmutableGuardDrop(t, s) =>
            /\ acc[s].readers >= 1
            /\ acc[s].readers >= LiveShared(s)
            /\ acc[s].readers <= Cardinality(Threads) * MaxHold]_vars

\* C33: in accessor.rs no drop of an AccessGuard panics, and Drop finds the
\* flags (write_allowed, read_allowed) at (false, false) when the guard
\* obtained write access and at (false, true) when it obtained read access,
\* guards dropped without a val or val_mut call included.
C33_DropInfersKind ==
    [][\A t \in Threads : \A s \in Storages :
         (AccessGuardDrop(t, s) \/ AccessGuardUnusedDrop(t, s)) =>
            /\ pc'[t] # "panicked"
            /\ wr'[t][s] < wr[t][s] =>
                    ~acc[s].write_allowed /\ ~acc[s].read_allowed
            /\ rd'[t][s] < rd[t][s] =>
                    ~acc[s].write_allowed /\ acc[s].read_allowed]_vars

\* C34: in accessor/mod.rs a reader that is blocked in val on a storage
\* whose writer has dropped its guard, with no guard left on the storage and
\* no writer waiting for it, is eventually granted read access.
C34_ReaderGrantedAfterWriter ==
    \A r \in Threads : \A s \in Storages :
        (/\ pc[r] \in {"r_wait", "r_woken"} /\ target[r] = s
         /\ IsOpen(s) /\ BlockedWriters(s) = {})
            ~> (rd[r][s] > 0)

\* The ids in dead_entities.
DeadIds == {dead_entities[i] : i \in 1..Len(dead_entities)}

\* C35: the Entities invariant. No id is active and dead at once, and no id
\* is in dead_entities twice.
C35_ActiveDeadDisjoint ==
    /\ active_entities \cap DeadIds = {}
    /\ \A i \in 1..Len(dead_entities) : \A j \in 1..Len(dead_entities) :
            i # j => dead_entities[i] # dead_entities[j]

\* C35 witness: after removals and a recycled id, two ids are dead and a
\* recycled one is active.
C35_Witness ==
    /\ Len(dead_entities) = 2
    /\ \E id \in active_entities : life[id] = "recycled"

\* The ids new_entity_id has returned so far.
HandedOutIds == {id \in EntityIds : life[id] # "never"}

\* C36: a fresh id (dead_entities is empty, get_next_id answers
\* num_entities) is the number of distinct ids handed out so far, and the
\* ids handed out are 0..n-1 at all times.
C36_FreshIdsDense ==
    /\ [][\A t \in DataThreads :
            (NewEntityId(t) /\ dead_entities = <<>>) =>
                ret'[t] = Cardinality(HandedOutIds)]_vars
    /\ [](HandedOutIds = 0..(Cardinality(HandedOutIds) - 1))

\* C37: new_entity_id never returns an id that was active right before the
\* call.
C37_NewIdNotActive ==
    [][\A t \in DataThreads :
         NewEntityId(t) => ret'[t] \notin active_entities]_vars

\* C37 witness: new_entity_id has just returned a recycled id while another
\* id is active.
C37_Witness ==
    \E t \in DataThreads :
        /\ ret[t] \in active_entities /\ life[ret[t]] = "recycled"
        /\ Cardinality(active_entities) >= 2
        /\ dead_entities = <<>>

====
